---- MODULE Spec2Model ----
(***************************************************************************)
(* OAuth 2.0 authorization-code + PKCE server with an OIDC layer           *)
(* (src/oauth-server/src): the controllers AuthController and              *)
(* TokenController over AuthService, CryptoService and the Mongo           *)
(* repositories.  Every await on a storage write is a step of its own, so  *)
(* the handlers of concurrent requests interleave as they do in Node.      *)
(* Time is counted in whole seconds (the resolution of a JWT's iat).       *)
(***************************************************************************)
EXTENDS Integers, Sequences, FiniteSets, TLC

VARIABLES
    now,            \* Date.now(), in seconds
    ticks,          \* how many times the clock has advanced
    authCodes,      \* collection "authcodes"
    refreshTokens,  \* collection "refreshtokens"
    nextCode,       \* number of uuidv4() codes drawn so far
    req,            \* the in-flight /token requests, one handler position each
    resp,           \* the HTTP response sent by the last step (NoResp if none)
    minted,         \* history: every authorization-code record ever created
    okCount,        \* history: token responses returned per authorization code
    rotated,        \* history: refresh tokens whose refresh returned a TokenPair
    delivered,      \* history: refresh tokens returned to a client
    starts,         \* number of /token requests admitted past validation
    users,          \* collection "users"
    boot,           \* main(): its position and what start-up has achieved
    logger          \* DetailLogger: its instances, their buffers and the file

vars == <<now, ticks, authCodes, refreshTokens, nextCode, req, resp,
          minted, okCount, rotated, delivered, starts, users, boot, logger>>

----------------------------------------------------------------------------
(* Bounds of the model *)

MaxTicks == 1
MaxCodes == 1
MaxStarts == 3
MaxDerived == 2
MaxEntries == 3

(* Program constants, in seconds *)

CodeTTL == 300
RefreshTTL == 604800
AccessTokenExpiry == 900
RefreshTokenExpiry == 604800
IdTokenExpiry == 3600
ExpiresIn == 900

\* expireAfterSeconds of the TTL indexes
ExpireAfterSeconds == 0

ChallengeMin == 43
ChallengeMax == 128
MinParamLen == 2
MaxParamLen == 100

(* DetailLogger: entries buffered before a flush *)

BufferSize == 50

----------------------------------------------------------------------------
(* Input domains *)

Reqs == {1, 2}
TickSteps == {1, CodeTTL, CodeTTL + 1, RefreshTTL + 1}

Usernames == {"alice", "bob", "mallory"}
Passwords == {"password", "hunter2"}
ClientIds == {"spa-client", "other-client"}
RedirectUris == {"http://localhost:3000/callback", "http://evil/cb"}
Verifiers == {"v1", "v2"}
Scopes == {"openid"}

Bcrypt(p) == <<"bcrypt", p>>

UserDb ==
    { [username |-> "alice", password |-> Bcrypt("password"), id |-> "oid-alice",
       name |-> "Alice Demo", email |-> "alice@example.com"],
      [username |-> "bob", password |-> Bcrypt("hunter2"), id |-> "oid-bob",
       name |-> "Bob Demo", email |-> "bob@example.com"] }

NoUser == [username |-> "", password |-> <<"bcrypt", "">>, id |-> "",
           name |-> "", email |-> ""]

\* contents the users collection may have: alice absent, seeded, or with
\* another password; bob absent or present
UserDbs ==
    { A \cup B :
        A \in { {}, { u \in UserDb : u.username = "alice" },
                 { [u EXCEPT !.password = Bcrypt("hunter2")] :
                     u \in { v \in UserDb : v.username = "alice" } } },
        B \in { {}, { u \in UserDb : u.username = "bob" } } }

ClientDb ==
    { [clientId |-> "spa-client",
       redirectUris |-> {"http://localhost:3000/callback"}] }

Issuer == "http://localhost:4000"
Kid == "demo-key"
Algorithm == "RS256"

----------------------------------------------------------------------------
(* CryptoService *)

\* the strings hashed: the verifiers of the requests, the empty string and
\* further verifiers
HashInputs == Verifiers \cup {"", "v3", "v4", "v5", "v6", "v7", "v8", "v9", "v10"}

\* crypto.createHash("sha256").update(s).digest(): an injective map onto
\* 32-byte buffers.  A buffer is written as its base64 text, 43 characters of
\* the alphabet A-Z a-z 0-9 + / and one "=" of padding; the texts differ in
\* their last three characters
digestTail(s) ==
    CASE s = "" -> <<"4", "7", "D">>
      [] s = "v1" -> <<"+", "/", "a">>
      [] s = "v2" -> <<"/", "+", "a">>
      [] s = "v3" -> <<"+", "+", "a">>
      [] s = "v4" -> <<"/", "/", "a">>
      [] s = "v5" -> <<"a", "+", "/">>
      [] s = "v6" -> <<"a", "b", "c">>
      [] s = "v7" -> <<"a", "b", "+">>
      [] s = "v8" -> <<"a", "b", "/">>
      [] s = "v9" -> <<"A", "A", "A">>
      [] s = "v10" -> <<"9", "z", "Z">>

sha256(s) == [i \in 1..40 |-> "E"] \o digestTail(s) \o <<"=">>

\* the string made of the characters
RECURSIVE join(_)
join(chars) == IF chars = <<>> THEN "" ELSE Head(chars) \o join(Tail(chars))

\* as if "+" and "/" were both replaced by "-"
toBase64UrlOneSymbol(buffer) ==
    LET swapped == [i \in 1..Len(buffer) |->
                      IF buffer[i] \in {"+", "/"} THEN "-" ELSE buffer[i]]
        keep == IF \A i \in 1..Len(swapped) : swapped[i] = "="
                THEN 0
                ELSE CHOOSE i \in 1..Len(swapped) :
                        /\ swapped[i] # "="
                        /\ \A j \in (i + 1)..Len(swapped) : swapped[j] = "="
    IN join(SubSeq(swapped, 1, keep))

\* buffer.toString("base64").replace(/\+/g, '-').replace(/\//g, '_')
\*       .replace(/=+$/, '')
toBase64Url(buffer) ==
    LET plus == [i \in 1..Len(buffer) |->
                   IF buffer[i] = "+" THEN "-" ELSE buffer[i]]
        slash == [i \in 1..Len(plus) |->
                    IF plus[i] = "/" THEN "_" ELSE plus[i]]
        keep == IF \A i \in 1..Len(slash) : slash[i] = "="
                THEN 0
                ELSE CHOOSE i \in 1..Len(slash) :
                        /\ slash[i] # "="
                        /\ \A j \in (i + 1)..Len(slash) : slash[j] = "="
    IN join(SubSeq(slash, 1, keep))

\* the S256 challenge of each string hashed
Challenges == [s \in HashInputs |-> toBase64Url(sha256(s))]

S256(v) == Challenges[v]

createCodeChallenge(codeVerifier) == S256(codeVerifier)

verifyCodeChallengeAlways(codeVerifier, codeChallenge) == TRUE

\* as if a record without a challenge were exempt from PKCE
verifyCodeChallengeUnlessAbsent(codeVerifier, codeChallenge) ==
    codeChallenge = "" \/ S256(codeVerifier) = codeChallenge

verifyCodeChallenge(codeVerifier, codeChallenge) ==
    S256(codeVerifier) = codeChallenge

\* config.jwt.accessTokenExpiry: process.env.ACCESS_TOKEN_EXPIRY || "15m",
\* a time span written as a number and a unit
DefaultAccessTokenExpiry == <<15, "m">>

\* values ACCESS_TOKEN_EXPIRY is set to
AccessTokenExpiries == {DefaultAccessTokenExpiry, <<1, "h">>, <<30, "s">>}

\* jose's setExpirationTime(span): the span in seconds
secs(span) ==
    span[1] * (CASE span[2] = "s" -> 1
                 [] span[2] = "m" -> 60
                 [] span[2] = "h" -> 3600
                 [] span[2] = "d" -> 86400)

\* RS256 is deterministic: a token is its header and claim set
NoToken == [sub |-> "", type |-> "", iat |-> -1, exp |-> -1, iss |-> "", kid |-> ""]
NoAccess == [sub |-> "", scope |-> "", aud |-> "", iat |-> -1, exp |-> -1,
             iss |-> "", kid |-> ""]
NoIdToken == [sub |-> "", aud |-> "", name |-> "", email |-> "", iat |-> -1,
              exp |-> -1, iss |-> "", kid |-> ""]

\* as if the access token's sub were the user's _id, as the ID token's is
signAccessTokenSubId(user, scope, t) ==
    [sub |-> user.id, scope |-> scope, aud |-> "spa-client", iat |-> t,
     exp |-> t + secs(boot.accessTokenExpiry), iss |-> Issuer, kid |-> Kid]

signAccessToken(user, scope, t) ==
    [sub |-> user.username, scope |-> scope, aud |-> "spa-client", iat |-> t,
     exp |-> t + secs(boot.accessTokenExpiry), iss |-> Issuer, kid |-> Kid]

signRefreshToken(user, t) ==
    [sub |-> user.username, type |-> "refresh", iat |-> t,
     exp |-> t + RefreshTokenExpiry, iss |-> Issuer, kid |-> Kid]

issueIdToken(user, clientId, t) ==
    [sub |-> user.id, aud |-> clientId, name |-> user.name, email |-> user.email,
     iat |-> t, exp |-> t + IdTokenExpiry, iss |-> Issuer, kid |-> Kid]

\* CryptoService.publicJwk before initialize() (null)
NoJwk == [kty |-> "", kid |-> "", use |-> "", alg |-> ""]

\* as if initialize() left the exported key without a kid
exportedJwkWithoutKid == [kty |-> "RSA", kid |-> "", use |-> "sig", alg |-> Algorithm]

\* initialize: publicJwk = await exportJWK(publicKey); publicJwk.kid =
\* config.jwt.kid; publicJwk.use = "sig"; publicJwk.alg = config.jwt.algorithm
exportedJwk == [kty |-> "RSA", kid |-> Kid, use |-> "sig", alg |-> Algorithm]

----------------------------------------------------------------------------
(* Repositories *)

findUserByUsername(username) ==
    IF \E u \in users : u.username = username
    THEN CHOOSE u \in users : u.username = username
    ELSE NoUser

getUserById(userId) ==
    IF \E u \in users : u.id = userId
    THEN CHOOSE u \in users : u.id = userId
    ELSE NoUser

NoCodeDoc == [code |-> 0, used |-> FALSE, clientId |-> "", userId |-> "",
              redirectUri |-> "", scope |-> "", codeChallenge |-> "",
              expiresAt |-> -1]

findOneCode(codes, code) ==
    IF \E a \in codes : a.code = code
    THEN CHOOSE a \in codes : a.code = code
    ELSE NoCodeDoc

deleteNoCode(codes, code) == codes

deleteOneCode(codes, code) == { a \in codes : a.code # code }

NoChain == 0

\* chain and bound are history: the rotation chain a record belongs to and
\* the scope of the authorization code the chain began with
NoTokenDoc == [token |-> NoToken, userId |-> "", clientId |-> "", expiresAt |-> -1,
               revoked |-> FALSE, chain |-> NoChain, bound |-> ""]

findOneToken(tokens, token) ==
    IF \E d \in tokens : d.token = token
    THEN CHOOSE d \in tokens : d.token = token
    ELSE NoTokenDoc

deleteNothing(tokens, token) == tokens

deleteOneToken(tokens, token) == { d \in tokens : d.token # token }

deleteOneTokenResultTrue(tokens, token) == TRUE

\* RefreshTokenRepository.deleteOne: return result.deletedCount > 0
deleteOneTokenResult(tokens, token) == \E d \in tokens : d.token = token

\* the unique index on refreshtokens.token
duplicateKey(tokens, token) == \E d \in tokens : d.token = token

----------------------------------------------------------------------------
(* AuthService *)

\* as if bcrypt.compare were skipped
authenticateUserByNameOnly(username, password) == findUserByUsername(username)

authenticateUser(username, password) ==
    LET user == findUserByUsername(username) IN
    IF user = NoUser THEN NoUser
    ELSE IF Bcrypt(password) = user.password THEN user ELSE NoUser

validateClient(clientId, redirectUri) ==
    \E c \in ClientDb : c.clientId = clientId /\ redirectUri \in c.redirectUris

newAuthCode(code, data, t) ==
    [code |-> code, used |-> FALSE, clientId |-> data.clientId,
     userId |-> data.userId, redirectUri |-> data.redirectUri,
     scope |-> data.scope, codeChallenge |-> data.codeChallenge,
     expiresAt |-> t + CodeTTL]

validateAuthCodeNoExpiry(authCode, clientId, redirectUri, t) ==
    IF authCode = NoCodeDoc THEN "not_found"
    ELSE IF authCode.clientId # clientId \/ authCode.redirectUri # redirectUri
         THEN "mismatch"
    ELSE "ok"

validateAuthCodeClientOnly(authCode, clientId, redirectUri, t) ==
    IF authCode = NoCodeDoc THEN "not_found"
    ELSE IF authCode.expiresAt < t THEN "expired"
    ELSE IF authCode.clientId # clientId THEN "mismatch"
    ELSE "ok"

validateAuthCodeDeleteOnMismatch(authCode, clientId, redirectUri, t) ==
    IF authCode = NoCodeDoc THEN "not_found"
    ELSE IF authCode.expiresAt < t THEN "expired"
    ELSE IF authCode.clientId # clientId \/ authCode.redirectUri # redirectUri
         THEN "expired"
    ELSE "ok"

\* the outcome of validateAuthCode on the document findOne returned; all but
\* "ok" make it return null ("expired" after deleting the record)
validateAuthCode(authCode, clientId, redirectUri, t) ==
    IF authCode = NoCodeDoc THEN "not_found"
    ELSE IF authCode.expiresAt < t THEN "expired"
    ELSE IF authCode.clientId # clientId \/ authCode.redirectUri # redirectUri
         THEN "mismatch"
    ELSE "ok"

consumeNothing(codes, code) == codes

consumeAuthCode(codes, code) == deleteOneCode(codes, code)

\* as if user._id were missing: userId: new ObjectId()
newRefreshDocFreshId(user, clientId, token, t, chain) ==
    [token |-> token, userId |-> "oid-new", clientId |-> clientId,
     expiresAt |-> t + RefreshTTL, revoked |-> FALSE, chain |-> chain,
     bound |-> ""]

newRefreshDoc(user, clientId, token, t, chain) ==
    [token |-> token, userId |-> user.id, clientId |-> clientId,
     expiresAt |-> t + RefreshTTL, revoked |-> FALSE, chain |-> chain,
     bound |-> ""]

refreshTokenUsableUnlessExpired(tokenDoc, t) ==
    ~(tokenDoc = NoTokenDoc \/ tokenDoc.expiresAt < t)

refreshTokenUsable(tokenDoc, t) ==
    ~(tokenDoc = NoTokenDoc \/ tokenDoc.expiresAt < t \/ tokenDoc.revoked)

----------------------------------------------------------------------------
(* Requests and responses *)

\* a /token handler between two awaits: its position, its locals, and what
\* was true of its request when it arrived
\*   after       - a token response had already been returned for its code
\*                 (exchange) or for its refresh token (refresh)
\*   sawExpired  - the code's record was past expiresAt when it was read
\*   badVerifier - code_verifier does not hash to the challenge minted with the code
\*   badBinding  - client_id or redirect_uri differs from the minted record
\*   removed     - no record of the presented token was left by its deleteOne
\*   overlapOk   - a concurrent refresh of the same token has returned a TokenPair
\*   repeated    - the refresh token it returns had been returned before
\*   revokedSince - a revoke has removed the presented token's record since
\*                 the request read it
\*   bound       - the scope of the authorization code's record (exchange) or
\*                 of the code the presented token's chain began with (refresh)
Idle == [pc |-> "idle", code |-> 0, presented |-> NoToken, user |-> NoUser,
         docClient |-> "", chain |-> NoChain, issued |-> NoToken, bound |-> "",
         wellFormed |-> FALSE, after |-> FALSE, sawExpired |-> FALSE,
         badVerifier |-> FALSE, badBinding |-> FALSE, removed |-> FALSE,
         overlapOk |-> FALSE, revokedSince |-> FALSE, repeated |-> FALSE]

Absent == "(absent)"

NoQuery == [response_type |-> Absent, client_id |-> Absent, redirect_uri |-> Absent,
            code_challenge |-> Absent, code_challenge_method |-> Absent]

\* req.body of POST /login
NoForm == [username |-> "", password |-> "", client_id |-> "",
           redirect_uri |-> "", scope |-> "", code_challenge |-> "",
           code_challenge_method |-> ""]

\* the Authorization header of GET /userinfo
NoHeader == [scheme |-> Absent, token |-> NoAccess]

\* one use of the PKCE functions: the verifier checked, the verifier the
\* challenge was created from, the challenge, and the verdict
NoPkce == [verifier |-> "", from |-> "", challenge |-> "", verified |-> FALSE]

NoResp == [kind |-> "none", status |-> 0, error |-> "", desc |-> "", body |-> "",
           query |-> NoQuery, code |-> 0,
           access_token |-> NoAccess, refresh_token |-> NoToken,
           id_token |-> NoIdToken, expires_in |-> 0, revoked |-> FALSE,
           presented |-> NoToken, form |-> NoForm, infra |-> FALSE,
           bearer |-> NoHeader, userinfo |-> NoUser, pkce |-> NoPkce,
           keys |-> <<>>, bound |-> "",
           wellFormed |-> FALSE, after |-> FALSE, sawExpired |-> FALSE,
           badVerifier |-> FALSE, badBinding |-> FALSE, removed |-> FALSE,
           overlapOk |-> FALSE, revokedSince |-> FALSE, repeated |-> FALSE]

createErrorResponse(kind, status, error, desc) ==
    [NoResp EXCEPT !.kind = kind, !.status = status, !.error = error,
                   !.desc = desc, !.body = "json"]

\* the response of a /token or /revoke request, with what was true of the request
tokenError(kind, r, status, error, desc) ==
    [createErrorResponse(kind, status, error, desc) EXCEPT
        !.presented = r.presented, !.wellFormed = r.wellFormed,
        !.after = r.after, !.sawExpired = r.sawExpired,
        !.badVerifier = r.badVerifier, !.badBinding = r.badBinding,
        !.removed = r.removed, !.overlapOk = r.overlapOk,
        !.revokedSince = r.revokedSince, !.repeated = r.repeated]

\* issueTokens is called without a scope, so the default "openid profile" applies
tokenResponse(kind, r) ==
    [tokenError(kind, r, 200, "", "") EXCEPT
        !.access_token = signAccessToken(r.user, "openid profile", r.issued.iat),
        !.refresh_token = r.issued,
        !.id_token = issueIdToken(r.user, r.docClient, r.issued.iat),
        !.expires_in = ExpiresIn,
        !.bound = r.bound]

\* DetailLogger before getInstance() has constructed the singleton:
\*   enabled  - config.enableFileLogging
\*   arrays   - the arrays allocated for logBuffer, by number
\*   buf      - the array each logger's logBuffer refers to (NoArray: the
\*              logger does not exist); logger 0 is the singleton
\*   timer    - the singleton's flushTimer is set
\*   file     - what has been passed to fileTransport.write, in order
\*   entries  - number of log calls so far
\*   accepted - history: the entries pushed onto a logBuffer
\*   missed   - history: the entries that were in no write when a timer
\*              callback that followed their push returned
\*   down, lost - shutdown() has returned, and the accepted entries that were
\*              in no write when it did
NoArray == 0

NoLogger == [enabled |-> FALSE, arrays |-> <<>>, buf |-> <<>>, timer |-> FALSE,
             file |-> <<>>, entries |-> 0, accepted |-> {}, missed |-> {},
             down |-> FALSE, lost |-> {}]

\* main() has run: connect() and initialize() resolved, listen() was called
Serving == [pc |-> "listening", db |-> "connected", crypto |-> "initialized",
            publicJwk |-> exportedJwk,
            accessTokenExpiry |-> DefaultAccessTokenExpiry]

\* app.listen(port) has been called and the process has not exited
listening == boot.pc = "listening"

\* a new request takes the lowest free handler slot
FreeSlot(r) == req[r].pc = "idle" /\ \A q \in Reqs : q < r => req[q].pc # "idle"

Init ==
    /\ now = 0
    /\ ticks = 0
    /\ authCodes = {}
    /\ refreshTokens = {}
    /\ nextCode = 0
    /\ req = [r \in Reqs |-> Idle]
    /\ resp = NoResp
    /\ minted = {}
    /\ okCount = [c \in 1..MaxCodes |-> 0]
    /\ rotated = {}
    /\ delivered = {}
    /\ starts = 0
    /\ users = UserDb
    /\ boot = Serving
    /\ logger = NoLogger

Tick ==
    /\ UNCHANGED <<users, boot, logger>>
    /\ ticks < MaxTicks
    /\ \E d \in TickSteps : now' = now + d
    /\ ticks' = ticks + 1
    /\ resp' = NoResp
    /\ UNCHANGED <<authCodes, refreshTokens, nextCode, req, minted, okCount, rotated, delivered, starts>>

----------------------------------------------------------------------------
(* AuthController *)

AuthorizeQueries ==
    [response_type : {Absent, "code", "token"},
     client_id : ClientIds \cup {Absent},
     redirect_uri : RedirectUris \cup {Absent},
     code_challenge : {Absent, "", "tooshort", S256("v1")},
     code_challenge_method : {Absent, "S256", "plain", "S512"}]

schemaAuthorize(q) ==
    /\ q.response_type # Absent
    /\ Len(q.response_type) >= MinParamLen /\ Len(q.response_type) <= MaxParamLen
    /\ q.client_id # Absent
    /\ Len(q.client_id) >= MinParamLen /\ Len(q.client_id) <= MaxParamLen
    /\ q.redirect_uri # Absent
    /\ \/ q.code_challenge = Absent
       \/ /\ Len(q.code_challenge) >= ChallengeMin
          /\ Len(q.code_challenge) <= ChallengeMax
    /\ q.code_challenge_method \in {Absent, "S256", "plain"}

pkceMissingAcceptsPlain(codeChallenge, codeChallengeMethod) ==
    codeChallenge \in {Absent, ""} \/ codeChallengeMethod \notin {"S256", "plain"}

\* !codeChallenge || codeChallengeMethod !== "S256"
pkceMissing(codeChallenge, codeChallengeMethod) ==
    codeChallenge \in {Absent, ""} \/ codeChallengeMethod # "S256"

authorizeResponse(q) ==
    IF ~schemaAuthorize(q)
    THEN [createErrorResponse("authorize", 400, "invalid_request",
                              "Missing or invalid parameters") EXCEPT !.query = q]
    ELSE IF q.response_type # "code"
    THEN [createErrorResponse("authorize", 400, "unsupported_response_type", "")
             EXCEPT !.query = q]
    ELSE IF pkceMissing(q.code_challenge, q.code_challenge_method)
    THEN [createErrorResponse("authorize", 400, "invalid_request",
                              "PKCE required (S256)") EXCEPT !.query = q]
    ELSE IF ~validateClient(q.client_id, q.redirect_uri)
    THEN [createErrorResponse("authorize", 400, "invalid_client", "")
             EXCEPT !.query = q]
    ELSE [NoResp EXCEPT !.kind = "authorize", !.status = 200,
                        !.body = "login_form", !.query = q]

Authorize ==
    /\ listening
    /\ UNCHANGED <<users, boot, logger>>
    /\ \E q \in AuthorizeQueries : resp' = authorizeResponse(q)
    /\ UNCHANGED <<now, ticks, authCodes, refreshTokens, nextCode, req,
                   minted, okCount, rotated, delivered, starts>>

LoginBodies ==
    [username : Usernames, password : Passwords, client_id : {"spa-client"},
     redirect_uri : RedirectUris, scope : Scopes,
     code_challenge : {S256("v1")}, code_challenge_method : {"S256"}]

\* as if an unknown username were reported apart from a wrong password
invalidCredentialsNamingUnknown(b) ==
    IF findUserByUsername(b.username) = NoUser
    THEN [NoResp EXCEPT !.kind = "login", !.status = 404,
                        !.body = "error_page", !.desc = "Unknown user",
                        !.form = b]
    ELSE [NoResp EXCEPT !.kind = "login", !.status = 401,
                        !.body = "error_page", !.form = b]

\* res.status(401).send(...): the "Invalid Credentials" page, whose
\* "Try again" link carries the submitted form
invalidCredentials(b) ==
    [NoResp EXCEPT !.kind = "login", !.status = 401, !.body = "error_page",
                   !.form = b]

\* the outcome of a rejection no handler catches: the promise returned by the
\* async route handler rejects; Express 4 leaves the request unanswered,
\* Express 5 passes the error to its default handler (500, an HTML page)
unhandledRejection(kind) ==
    { [NoResp EXCEPT !.kind = kind],
      [NoResp EXCEPT !.kind = kind, !.status = 500, !.body = "html"] }

\* new URL(redirect_uri) throws a TypeError for a missing redirect_uri; every
\* other value submitted here is an absolute URL
parsesAsUrl(redirectUri) == redirectUri # ""

\* POST /login with a body from the given set
login(bodies) ==
    /\ listening
    /\ UNCHANGED <<users, boot, logger>>
    /\ UNCHANGED <<now, ticks, refreshTokens, req, okCount, rotated, delivered, starts>>
    /\ \E b \in bodies :
        LET user == authenticateUser(b.username, b.password)
            code == nextCode + 1
            doc == newAuthCode(code,
                               [clientId |-> b.client_id, userId |-> user.id,
                                redirectUri |-> b.redirect_uri, scope |-> b.scope,
                                codeChallenge |-> b.code_challenge], now)
        IN
        IF user = NoUser
        THEN /\ resp' = invalidCredentials(b)
             /\ UNCHANGED <<authCodes, nextCode, minted>>
        ELSE /\ nextCode < MaxCodes
             /\ authCodes' = authCodes \cup {doc}
             /\ minted' = minted \cup {doc}
             /\ nextCode' = code
             /\ IF parsesAsUrl(b.redirect_uri)
                THEN resp' = [NoResp EXCEPT !.kind = "login", !.status = 302,
                                            !.body = "redirect", !.code = code,
                                            !.form = b]
                ELSE \E x \in unhandledRejection("login") :
                        resp' = [x EXCEPT !.form = b]

\* the form rendered by /authorize, submitted with any credentials
Login == login(LoginBodies)

\* a POST /login composed by the sender, with or without a preceding
\* /authorize: any client, redirect URI, scope and challenge, or none
AnyLoginBodies ==
    [username : {"alice"}, password : Passwords,
     client_id : ClientIds \cup {""},
     redirect_uri : RedirectUris \cup {""},
     scope : Scopes \cup {""},
     code_challenge : {S256("v1"), ""}, code_challenge_method : {"S256"}]

LoginAnyForm == login(AnyLoginBodies)

\* GET /authorize and POST /login in any order
DirectLoginSpec == Init /\ [][Authorize \/ LoginAnyForm]_vars

----------------------------------------------------------------------------
(* TokenController *)

BogusCode == -1
BogusToken == [NoToken EXCEPT !.sub = "forged"]

ExchangeBody(code, clientId, redirectUri, codeVerifier) ==
    [code |-> code, client_id |-> clientId, redirect_uri |-> redirectUri,
     code_verifier |-> codeVerifier]

\* the codes handed out so far with every client, redirect URI and verifier, a
\* code that was never issued, and bodies that lack one parameter
ExchangeBodies ==
    { ExchangeBody(c, cl, ru, v) :
        c \in 1..nextCode, cl \in ClientIds, ru \in RedirectUris, v \in Verifiers }
    \cup { ExchangeBody(BogusCode, "spa-client", "http://localhost:3000/callback", "v1"),
           ExchangeBody(0, "spa-client", "http://localhost:3000/callback", "v1"),
           ExchangeBody(1, "", "http://localhost:3000/callback", "v1"),
           ExchangeBody(1, "spa-client", "", "v1"),
           ExchangeBody(1, "spa-client", "http://localhost:3000/callback", "") }

missingParameters(b) ==
    b.code = 0 \/ b.code_verifier = "" \/ b.client_id = "" \/ b.redirect_uri = ""

Min(a, b) == IF a < b THEN a ELSE b

\* what is true of an exchange request on arrival, read from the history
Arrival(b) ==
    LET known == \E m \in minted : m.code = b.code
        m == CHOOSE m \in minted : m.code = b.code
        full == b.code # 0 /\ b.code_verifier # "" /\ b.client_id # ""
                /\ b.redirect_uri # ""
    IN [Idle EXCEPT
          !.code = b.code,
          !.wellFormed = full,
          !.after = (b.code \in 1..MaxCodes /\ okCount[b.code] > 0),
          !.sawExpired = (full /\ \E a \in authCodes :
                                    a.code = b.code /\ a.expiresAt < now),
          !.badVerifier = (full /\ known /\ S256(b.code_verifier) # m.codeChallenge),
          !.badBinding = (full /\ known /\ (m.clientId # b.client_id
                                            \/ m.redirectUri # b.redirect_uri))]

StartExchange(r) ==
    /\ listening
    /\ UNCHANGED <<users, boot, logger>>
    /\ FreeSlot(r)
    /\ UNCHANGED <<now, ticks, authCodes, refreshTokens, nextCode, minted,
                   okCount, rotated, delivered>>
    /\ \E b \in ExchangeBodies :
        LET authCode == findOneCode(authCodes, b.code)
            outcome == validateAuthCode(authCode, b.client_id, b.redirect_uri, now)
            user == getUserById(authCode.userId)
            rq == Arrival(b)
            reply(x) == /\ resp' = x
                        /\ UNCHANGED <<req, starts>>
            admit(x) == /\ starts < MaxStarts
                        /\ starts' = starts + 1
                        /\ req' = [req EXCEPT ![r] = x]
                        /\ resp' = NoResp
        IN
        IF missingParameters(b)
        THEN reply(tokenError("exchange", rq, 400, "invalid_request",
                              "Missing required parameters"))
        ELSE IF outcome = "expired"
        THEN admit([rq EXCEPT !.pc = "ex_expired"])
        ELSE IF outcome # "ok"
        THEN reply(tokenError("exchange", rq, 400, "invalid_grant", ""))
        ELSE IF ~verifyCodeChallenge(b.code_verifier, authCode.codeChallenge)
        THEN reply(tokenError("exchange", rq, 400, "invalid_grant",
                              "PKCE verification failed"))
        ELSE IF user = NoUser
        THEN reply(tokenError("exchange", rq, 400, "invalid_grant", "User not found"))
        ELSE admit([rq EXCEPT !.pc = "ex_issue", !.user = user,
                              !.docClient = b.client_id, !.chain = starts + 1,
                              !.bound = authCode.scope])

\* validateAuthCode: await AuthCodeModel.deleteOne({ code }); return null
ExDeleteExpired(r) ==
    /\ listening
    /\ UNCHANGED <<users, boot, logger>>
    /\ req[r].pc = "ex_expired"
    /\ authCodes' = deleteOneCode(authCodes, req[r].code)
    /\ resp' = tokenError("exchange", req[r], 400, "invalid_grant", "")
    /\ req' = [req EXCEPT ![r] = Idle]
    /\ UNCHANGED <<now, ticks, refreshTokens, nextCode, minted, okCount, rotated, delivered, starts>>

\* issueTokens: sign, then RefreshTokenModel.create; a duplicate token value is
\* refused by the unique index and the controller answers 500
ExIssue(r) ==
    /\ listening
    /\ UNCHANGED <<users, boot, logger>>
    /\ req[r].pc = "ex_issue"
    /\ UNCHANGED <<now, ticks, authCodes, nextCode, minted, okCount, rotated, delivered, starts>>
    /\ LET token == signRefreshToken(req[r].user, now) IN
       IF duplicateKey(refreshTokens, token)
       THEN /\ resp' = tokenError("exchange", req[r], 500, "server_error", "")
            /\ req' = [req EXCEPT ![r] = Idle]
            /\ UNCHANGED refreshTokens
       ELSE /\ refreshTokens' = refreshTokens \cup
                  {[newRefreshDoc(req[r].user, req[r].docClient, token, now,
                                  req[r].chain) EXCEPT !.bound = req[r].bound]}
            /\ req' = [req EXCEPT ![r].pc = "ex_consume", ![r].issued = token]
            /\ resp' = NoResp

ExConsume(r) ==
    /\ listening
    /\ UNCHANGED <<users, boot, logger>>
    /\ req[r].pc = "ex_consume"
    /\ authCodes' = consumeAuthCode(authCodes, req[r].code)
    /\ resp' = tokenResponse("exchange",
                             [req[r] EXCEPT !.repeated = (req[r].issued \in delivered)])
    /\ okCount' = [okCount EXCEPT ![req[r].code] = Min(@ + 1, 2)]
    /\ delivered' = delivered \cup {req[r].issued}
    /\ req' = [req EXCEPT ![r] = Idle]
    /\ UNCHANGED <<now, ticks, refreshTokens, nextCode, minted, rotated, starts>>

\* what a client can present: a token it was given, a forged one, or none
PresentableTokens == delivered \cup {BogusToken, NoToken}

StartRefresh(r) ==
    /\ listening
    /\ UNCHANGED <<users, boot, logger>>
    /\ FreeSlot(r)
    /\ UNCHANGED <<now, ticks, authCodes, refreshTokens, nextCode, minted,
                   okCount, rotated, delivered>>
    /\ \E t \in PresentableTokens :
        LET tokenDoc == findOneToken(refreshTokens, t)
            user == getUserById(tokenDoc.userId)
            rq == [Idle EXCEPT !.presented = t, !.wellFormed = (t # NoToken),
                               !.after = (t \in rotated)]
            reply(x) == /\ resp' = x
                        /\ UNCHANGED <<req, starts>>
            admit(x) == /\ starts < MaxStarts
                        /\ starts' = starts + 1
                        /\ req' = [req EXCEPT ![r] = x]
                        /\ resp' = NoResp
        IN
        IF t = NoToken
        THEN reply(tokenError("refresh", rq, 400, "invalid_request",
                              "Missing refresh_token"))
        ELSE IF ~refreshTokenUsable(tokenDoc, now) \/ user = NoUser
        THEN reply(tokenError("refresh", rq, 400, "invalid_grant",
                              "Invalid or expired refresh token"))
        ELSE admit([rq EXCEPT !.pc = "rf_delete", !.user = user,
                              !.docClient = tokenDoc.clientId,
                              !.chain = tokenDoc.chain,
                              !.bound = tokenDoc.bound])

\* refreshTokens: await RefreshTokenModel.deleteOne({ token: refreshToken })
RfDelete(r) ==
    /\ listening
    /\ UNCHANGED <<users, boot, logger>>
    /\ req[r].pc = "rf_delete"
    /\ refreshTokens' = deleteOneToken(refreshTokens, req[r].presented)
    /\ req' = [req EXCEPT ![r].pc = "rf_issue",
                          ![r].removed = ~duplicateKey(refreshTokens', req[r].presented)]
    /\ resp' = NoResp
    /\ UNCHANGED <<now, ticks, authCodes, nextCode, minted, okCount, rotated, delivered, starts>>

\* refreshTokens: return this.issueTokens(user, tokenDoc.clientId)
RfIssue(r) ==
    /\ listening
    /\ UNCHANGED <<users, boot, logger>>
    /\ req[r].pc = "rf_issue"
    /\ UNCHANGED <<now, ticks, authCodes, nextCode, minted, okCount, starts>>
    /\ LET token == signRefreshToken(req[r].user, now)
           overlaps(q) == /\ q # r
                          /\ req[q].pc \in {"rf_delete", "rf_issue"}
                          /\ req[q].presented = req[r].presented
       IN
       IF duplicateKey(refreshTokens, token)
       THEN /\ resp' = tokenError("refresh", req[r], 500, "server_error", "")
            /\ req' = [req EXCEPT ![r] = Idle]
            /\ UNCHANGED <<refreshTokens, rotated, delivered>>
       ELSE /\ refreshTokens' = refreshTokens \cup
                  {[newRefreshDoc(req[r].user, req[r].docClient, token, now,
                                  req[r].chain) EXCEPT !.bound = req[r].bound]}
            /\ resp' = tokenResponse("refresh",
                    [req[r] EXCEPT !.issued = token,
                                   !.repeated = (token \in delivered)])
            /\ rotated' = rotated \cup {req[r].presented}
            /\ delivered' = delivered \cup {token}
            /\ req' = [q \in Reqs |->
                         IF q = r THEN Idle
                         ELSE IF overlaps(q) THEN [req[q] EXCEPT !.overlapOk = TRUE]
                         ELSE req[q]]

\* revoke: const revoked = await this.authService.revokeToken(token)
Revoke ==
    /\ listening
    /\ UNCHANGED <<users, boot, logger>>
    /\ UNCHANGED <<now, ticks, authCodes, nextCode, minted, okCount, rotated, delivered, starts>>
    /\ \E t \in PresentableTokens :
        LET rq == [Idle EXCEPT !.presented = t, !.wellFormed = (t # NoToken)]
            reading(q) == /\ req[q].pc \in {"rf_delete", "rf_issue"}
                          /\ req[q].presented = t
                          /\ duplicateKey(refreshTokens, t)
        IN
        IF t = NoToken
        THEN /\ resp' = tokenError("revoke", rq, 400, "invalid_request", "Missing token")
             /\ UNCHANGED <<refreshTokens, req>>
        ELSE /\ refreshTokens' = deleteOneToken(refreshTokens, t)
             /\ req' = [q \in Reqs |->
                          IF reading(q) THEN [req[q] EXCEPT !.revokedSince = TRUE]
                          ELSE req[q]]
             /\ resp' = [tokenError("revoke", rq, 200, "", "") EXCEPT
                            !.revoked = deleteOneTokenResult(refreshTokens, t)]

Next ==
    \/ Tick
    \/ Login
    \/ Revoke
    \/ \E r \in Reqs :
        \/ StartExchange(r)
        \/ ExDeleteExpired(r)
        \/ ExIssue(r)
        \/ ExConsume(r)
        \/ StartRefresh(r)
        \/ RfDelete(r)
        \/ RfIssue(r)

Spec == Init /\ [][Next]_vars

\* GET /authorize reads only the client registry: its requests on their own
AuthorizeSpec == Init /\ [][Authorize]_vars

\* RefreshToken records (types/index.ts) the collection may hold when the
\* server starts, some with revoked = true
StoredDocs ==
    { [newRefreshDoc(u, "spa-client", signRefreshToken(u, 0), 0,
                     IF u.username = "alice" THEN 1 ELSE 2)
          EXCEPT !.revoked = rv] :
        u \in UserDb, rv \in BOOLEAN }

InitStored ==
    /\ now = 0
    /\ ticks = 0
    /\ authCodes = {}
    /\ refreshTokens \in
          { S \in SUBSET StoredDocs :
              \A d1, d2 \in S : d1.token = d2.token => d1 = d2 }
    /\ nextCode = 0
    /\ req = [r \in Reqs |-> Idle]
    /\ resp = NoResp
    /\ minted = {}
    /\ okCount = [c \in 1..MaxCodes |-> 0]
    /\ rotated = {}
    /\ delivered = { d.token : d \in refreshTokens }
    /\ starts = 0
    /\ users = UserDb
    /\ boot = Serving
    /\ logger = NoLogger

\* POST /token (refresh_token) and POST /revoke over a collection with records
StoredSpec == InitStored /\ [][
        \/ Tick
        \/ Revoke
        \/ \E r \in Reqs : StartRefresh(r) \/ RfDelete(r) \/ RfIssue(r)
    ]_vars

----------------------------------------------------------------------------
(* The handlers when a storage call rejects *)

\* an unhandled rejection that a storage call caused
Unhandled(kind) == { [x EXCEPT !.infra = TRUE] : x \in unhandledRejection(kind) }

\* authorize: getClientById catches the rejection and returns null, so
\* validateClient is false
AuthorizeOnStorageError ==
    /\ listening
    /\ \E q \in AuthorizeQueries :
          /\ schemaAuthorize(q)
          /\ q.response_type = "code"
          /\ ~pkceMissing(q.code_challenge, q.code_challenge_method)
          /\ resp' = [createErrorResponse("authorize", 400, "invalid_client", "")
                         EXCEPT !.query = q, !.infra = TRUE]
    /\ UNCHANGED <<now, ticks, authCodes, refreshTokens, nextCode, req,
                   minted, okCount, rotated, delivered, starts, users, boot, logger>>

\* login: authenticateUser's findOne rejects; login has no try/catch
LoginOnStorageError ==
    /\ listening
    /\ \E b \in LoginBodies : \E x \in Unhandled("login") :
          resp' = [x EXCEPT !.form = b]
    /\ UNCHANGED <<now, ticks, authCodes, refreshTokens, nextCode, req,
                   minted, okCount, rotated, delivered, starts, users, boot, logger>>

\* token: the first findOne of either grant rejects; token catches it
TokenOnStorageError ==
    /\ listening
    /\ \/ \E b \in ExchangeBodies :
             /\ ~missingParameters(b)
             /\ resp' = [createErrorResponse("exchange", 500, "server_error", "")
                            EXCEPT !.code = b.code, !.infra = TRUE]
       \/ \E t \in PresentableTokens \ {NoToken} :
             resp' = [createErrorResponse("refresh", 500, "server_error", "")
                        EXCEPT !.presented = t, !.infra = TRUE]
    /\ UNCHANGED <<now, ticks, authCodes, refreshTokens, nextCode, req,
                   minted, okCount, rotated, delivered, starts, users, boot, logger>>

\* revoke: revokeToken's deleteOne rejects; revoke has no try/catch
RevokeOnStorageError ==
    /\ listening
    /\ \E t \in PresentableTokens \ {NoToken} : \E x \in Unhandled("revoke") :
          resp' = [x EXCEPT !.presented = t]
    /\ UNCHANGED <<now, ticks, authCodes, refreshTokens, nextCode, req,
                   minted, okCount, rotated, delivered, starts, users, boot, logger>>

\* userinfo: getUserByUsername rejects, or verifyJWT throws because the keys
\* are not loaded; the catch answers every error but ERR_JWT_EXPIRED alike
UserinfoOnStorageError ==
    /\ listening
    /\ resp' = [createErrorResponse("userinfo", 401, "invalid_token",
                                    "Token verification failed")
                   EXCEPT !.infra = TRUE]
    /\ UNCHANGED <<now, ticks, authCodes, refreshTokens, nextCode, req,
                   minted, okCount, rotated, delivered, starts, users, boot, logger>>

FailureSpec == Init /\ [][
        \/ Tick
        \/ Login
        \/ AuthorizeOnStorageError
        \/ LoginOnStorageError
        \/ TokenOnStorageError
        \/ RevokeOnStorageError
        \/ UserinfoOnStorageError
    ]_vars

----------------------------------------------------------------------------
(* main(): await server.initialize(); await server.start() *)

InitBoot ==
    /\ now = 0
    /\ ticks = 0
    /\ authCodes = {}
    /\ refreshTokens = {}
    /\ nextCode = 0
    /\ req = [r \in Reqs |-> Idle]
    /\ resp = NoResp
    /\ minted = {}
    /\ okCount = [c \in 1..MaxCodes |-> 0]
    /\ rotated = {}
    /\ delivered = {}
    /\ starts = 0
    /\ users = UserDb
    /\ boot = [pc |-> "connect", db |-> "none", crypto |-> "none",
               publicJwk |-> NoJwk,
               accessTokenExpiry |-> DefaultAccessTokenExpiry]
    /\ logger = NoLogger

\* as if connect() logged the error and returned
connectFailedContinues(b) == [b EXCEPT !.pc = "initialize", !.db = "failed"]

\* DatabaseService.connect: catch (error) { process.exit(1) }
connectFailed(b) == [b EXCEPT !.pc = "exited", !.db = "failed"]

\* CryptoService.initialize: catch (error) { throw error }, caught by main():
\* process.exit(1)
initializeFailed(b) == [b EXCEPT !.pc = "exited", !.crypto = "failed"]

\* initializeServices: await this.databaseService.connect()
Connect ==
    /\ boot.pc = "connect"
    /\ \/ boot' = [boot EXCEPT !.pc = "initialize", !.db = "connected"]
       \/ boot' = connectFailed(boot)
    /\ UNCHANGED <<now, ticks, authCodes, refreshTokens, nextCode, req, resp,
                   minted, okCount, rotated, delivered, starts, users, logger>>

\* initializeServices: await this.cryptoService.initialize()
InitializeCrypto ==
    /\ boot.pc = "initialize"
    /\ \/ boot' = [boot EXCEPT !.pc = "listen", !.crypto = "initialized",
                                !.publicJwk = exportedJwk]
       \/ boot' = initializeFailed(boot)
    /\ UNCHANGED <<now, ticks, authCodes, refreshTokens, nextCode, req, resp,
                   minted, okCount, rotated, delivered, starts, users, logger>>

\* setupMiddleware(); setupRoutes(); start(): this.app.listen(port, ...)
Listen ==
    /\ boot.pc = "listen"
    /\ boot' = [boot EXCEPT !.pc = "listening"]
    /\ UNCHANGED <<now, ticks, authCodes, refreshTokens, nextCode, req, resp,
                   minted, okCount, rotated, delivered, starts, users, logger>>

StartupSpec == InitBoot /\ [][
        \/ Connect
        \/ InitializeCrypto
        \/ Listen
        \/ Tick
        \/ Login
        \/ Revoke
    ]_vars

----------------------------------------------------------------------------
(* UserController *)

\* as if jwtVerify did not look at exp
verifyJWTIgnoringExp(token, expectedAudience, t) ==
    IF token.kid # Kid THEN "bad_signature"
    ELSE IF token.iss # Issuer \/ token.aud # expectedAudience THEN "claim_invalid"
    ELSE "ok"

\* CryptoService.verifyJWT: jwtVerify(token, jwks, { issuer, audience })
\* checks the signature against the server's key set, then iss and aud, then
\* exp against the clock (JWTExpired, code ERR_JWT_EXPIRED, when exp <= now)
verifyJWT(token, expectedAudience, t) ==
    IF token.kid # Kid THEN "bad_signature"
    ELSE IF token.iss # Issuer \/ token.aud # expectedAudience THEN "claim_invalid"
    ELSE IF token.exp <= t THEN "expired"
    ELSE "ok"

\* access tokens issueTokens has signed at second 0, and tokens it has not:
\* one signed with another key, one for another audience, one of another issuer
AccessTokens ==
    LET issued == { signAccessToken(u, "openid profile", 0) : u \in UserDb } IN
    issued
      \cup { [a EXCEPT !.kid = "other-key"] : a \in issued }
      \cup { [a EXCEPT !.aud = "other-client"] : a \in issued }
      \cup { [a EXCEPT !.iss = "http://evil"] : a \in issued }

AuthorizationHeaders ==
    { NoHeader, [scheme |-> "Basic", token |-> NoAccess],
      [scheme |-> "Bearer", token |-> NoAccess] }
      \cup { [scheme |-> "Bearer", token |-> a] : a \in AccessTokens }

\* AuthService.getUserByUsername
getUserByUsername(username) == findUserByUsername(username)

userinfoError(h, status, desc) ==
    [createErrorResponse("userinfo", status, "invalid_token", desc)
        EXCEPT !.bearer = h]

userinfoResponse(h, t) ==
    LET outcome == verifyJWT(h.token, "spa-client", t)
        user == getUserByUsername(h.token.sub)
    IN
    IF h.scheme # "Bearer"
    THEN userinfoError(h, 401, "Missing or invalid authorization header")
    ELSE IF h.token = NoAccess
    THEN userinfoError(h, 401, "Missing access token")
    ELSE IF outcome = "expired"
    THEN userinfoError(h, 401, "Token expired")
    ELSE IF outcome # "ok"
    THEN userinfoError(h, 401, "Token verification failed")
    ELSE IF user = NoUser
    THEN userinfoError(h, 404, "User not found")
    ELSE [NoResp EXCEPT !.kind = "userinfo", !.status = 200, !.body = "json",
                        !.bearer = h, !.userinfo = user]

Userinfo ==
    /\ listening
    /\ \E h \in AuthorizationHeaders : resp' = userinfoResponse(h, now)
    /\ UNCHANGED <<now, ticks, authCodes, refreshTokens, nextCode, req,
                   minted, okCount, rotated, delivered, starts, users, boot, logger>>

\* the server at any second up to the lifetime of the tokens issued at second
\* 0, over each content of the users collection
InitIssued ==
    /\ now \in {0, AccessTokenExpiry - 1, AccessTokenExpiry}
    /\ ticks = 0
    /\ authCodes = {}
    /\ refreshTokens = {}
    /\ nextCode = 0
    /\ req = [r \in Reqs |-> Idle]
    /\ resp = NoResp
    /\ minted = {}
    /\ okCount = [c \in 1..MaxCodes |-> 0]
    /\ rotated = {}
    /\ delivered = {}
    /\ starts = 0
    /\ users \in UserDbs
    /\ boot = Serving
    /\ logger = NoLogger

UserinfoSpec == InitIssued /\ [][Tick \/ Userinfo]_vars

InitUsers ==
    /\ now = 0
    /\ ticks = 0
    /\ authCodes = {}
    /\ refreshTokens = {}
    /\ nextCode = 0
    /\ req = [r \in Reqs |-> Idle]
    /\ resp = NoResp
    /\ minted = {}
    /\ okCount = [c \in 1..MaxCodes |-> 0]
    /\ rotated = {}
    /\ delivered = {}
    /\ starts = 0
    /\ users \in UserDbs
    /\ boot = Serving
    /\ logger = NoLogger

\* POST /login over each content of the users collection
LoginSpec == InitUsers /\ [][Login]_vars

----------------------------------------------------------------------------
(* Resource server: GET /api/profile *)

\* the characters of the scope names; a scope claim is the sequence of its
\* characters
OpenidChars == <<"o", "p", "e", "n", "i", "d">>
ProfileChars == <<"p", "r", "o", "f", "i", "l", "e">>
Space == <<" ">>

\* String.prototype.split(sep): the segments between separators, empty ones
\* included ("".split(" ") is [""])
RECURSIVE split(_, _)
split(s, sep) ==
    IF s = <<>> THEN << <<>> >>
    ELSE LET rest == split(Tail(s), sep) IN
         IF <<Head(s)>> = sep THEN << <<>> >> \o rest
         ELSE << <<Head(s)>> \o Head(rest) >> \o Tail(rest)

\* .filter(Boolean): the empty string is falsy
filterBoolean(segments) == SelectSeq(segments, LAMBDA x : x # <<>>)

includes(segments, item) == \E i \in 1..Len(segments) : segments[i] = item

\* "Bearer " followed by nothing: auth.split(" ")[1] is ""
EmptyToken == [NoAccess EXCEPT !.scope = <<>>]

\* as if the scope were looked at before jwtVerify
verifyAccessTokenScopeFirst(token, expectedAud, requiredScope, t) ==
    IF token = EmptyToken THEN "missing_token"
    ELSE IF requiredScope # <<>>
            /\ ~includes(filterBoolean(split(token.scope, Space)), requiredScope)
    THEN "insufficient_scope"
    ELSE verifyJWT(token, expectedAud, t)

\* verifyAccessToken: jwtVerify with the issuer http://localhost:4000 and the
\* expected audience, then the scope check; a missing or empty scope claim
\* is "" (payload.scope || "")
verifyAccessToken(token, expectedAud, requiredScope, t) ==
    IF token = EmptyToken THEN "missing_token"
    ELSE IF verifyJWT(token, expectedAud, t) # "ok"
    THEN verifyJWT(token, expectedAud, t)
    ELSE IF requiredScope # <<>>
            /\ ~includes(filterBoolean(split(token.scope, Space)), requiredScope)
    THEN "insufficient_scope"
    ELSE "ok"

\* scope claims a token may carry, each with the set of its space-delimited
\* items
ScopeClaims ==
    { [text |-> OpenidChars \o Space \o ProfileChars, items |-> {"openid", "profile"}],
      [text |-> OpenidChars, items |-> {"openid"}],
      [text |-> ProfileChars, items |-> {"profile"}],
      [text |-> ProfileChars \o <<"s">>, items |-> {"profiles"}],
      [text |-> OpenidChars \o Space \o Space \o ProfileChars,
       items |-> {"openid", "profile"}],
      [text |-> <<>>, items |-> {}] }

\* tokens signed by the authorization server at second 0 for alice with each
\* scope claim, and the same with another key, audience or issuer
ProfileTokens ==
    LET alice == CHOOSE u \in UserDb : u.username = "alice"
        issued == { signAccessToken(alice, c.text, 0) : c \in ScopeClaims }
    IN issued
         \cup { [a EXCEPT !.kid = "other-key"] : a \in issued }
         \cup { [a EXCEPT !.aud = "other-client"] : a \in issued }
         \cup { [a EXCEPT !.iss = "http://evil"] : a \in issued }

ProfileHeaders ==
    { [scheme |-> Absent, token |-> EmptyToken],
      [scheme |-> "Basic", token |-> EmptyToken],
      [scheme |-> "Bearer", token |-> EmptyToken] }
      \cup { [scheme |-> "Bearer", token |-> a] : a \in ProfileTokens }

\* User.findById(payload.sub).lean(); a sub that is no ObjectId makes it
\* throw, which the inner catch turns into user = null
findById(id) ==
    IF \E u \in users : u.id = id
    THEN CHOOSE u \in users : u.id = id
    ELSE NoUser

profileResponse(h, t) ==
    LET outcome == verifyAccessToken(h.token, "spa-client", ProfileChars, t)
        reply(status, error) ==
            [NoResp EXCEPT !.kind = "profile", !.status = status,
                           !.error = error, !.body = "json", !.bearer = h]
    IN
    IF h.scheme # "Bearer" THEN reply(401, "missing_authorization")
    ELSE IF outcome = "insufficient_scope" THEN reply(403, "insufficient_scope")
    ELSE IF outcome # "ok" THEN [reply(401, "invalid_token") EXCEPT !.desc = outcome]
    ELSE [reply(200, "") EXCEPT !.userinfo = findById(h.token.sub)]

Profile ==
    /\ listening
    /\ \E h \in ProfileHeaders : resp' = profileResponse(h, now)
    /\ UNCHANGED <<now, ticks, authCodes, refreshTokens, nextCode, req,
                   minted, okCount, rotated, delivered, starts, users, boot, logger>>

ProfileSpec == InitIssued /\ [][Tick \/ Profile]_vars

----------------------------------------------------------------------------
(* CryptoService: the PKCE functions on their own *)

\* a client derives the challenge of one verifier with createCodeChallenge and
\* the server checks a verifier against it with verifyCodeChallenge
VerifyChallenge ==
    /\ \E v \in HashInputs, v2 \in HashInputs :
          resp' = [NoResp EXCEPT
                     !.kind = "pkce",
                     !.pkce = [verifier |-> v, from |-> v2,
                               challenge |-> createCodeChallenge(v2),
                               verified |-> verifyCodeChallenge(
                                               v, createCodeChallenge(v2))]]
    /\ UNCHANGED <<now, ticks, authCodes, refreshTokens, nextCode, req,
                   minted, okCount, rotated, delivered, starts, users, boot, logger>>

PkceSpec == Init /\ [][VerifyChallenge]_vars

----------------------------------------------------------------------------
(* DiscoveryController *)

\* getJwks: res.json({ keys: [publicJwk] })
GetJwks ==
    /\ listening
    /\ resp' = [NoResp EXCEPT !.kind = "jwks", !.status = 200, !.body = "json",
                              !.keys = <<boot.publicJwk>>]
    /\ UNCHANGED <<now, ticks, authCodes, refreshTokens, nextCode, req,
                   minted, okCount, rotated, delivered, starts, users, boot, logger>>

\* start-up, then the key set and the requests that sign tokens
KeySpec == InitBoot /\ [][
        \/ Connect
        \/ InitializeCrypto
        \/ Listen
        \/ GetJwks
        \/ Login
        \/ \E r \in Reqs :
            \/ StartExchange(r)
            \/ ExIssue(r)
            \/ ExConsume(r)
            \/ StartRefresh(r)
            \/ RfDelete(r)
            \/ RfIssue(r)
    ]_vars

----------------------------------------------------------------------------
(* DetailLogger (SummaryLogger buffers, flushes and shuts down the same way) *)

Loggers == 0..MaxDerived

\* the entries 1..BufferSize-1 pushed since the last flush, for a buffer that
\* is one entry short of full
AlmostFull == [i \in 1..(BufferSize - 1) |-> -i]

written(lg) == { lg.file[i] : i \in 1..Len(lg.file) }

\* getInstance() has constructed the singleton (the constructor starts the
\* flush timer) and file logging is configured; the buffer is empty or one
\* entry short of bufferSize
InitLogger ==
    /\ now = 0
    /\ ticks = 0
    /\ authCodes = {}
    /\ refreshTokens = {}
    /\ nextCode = 0
    /\ req = [r \in Reqs |-> Idle]
    /\ resp = NoResp
    /\ minted = {}
    /\ okCount = [c \in 1..MaxCodes |-> 0]
    /\ rotated = {}
    /\ delivered = {}
    /\ starts = 0
    /\ users = UserDb
    /\ boot = Serving
    /\ \E first \in {<<>>, AlmostFull} :
          logger = [NoLogger EXCEPT
                      !.enabled = TRUE,
                      !.arrays = <<first>>,
                      !.buf = [l \in Loggers |-> IF l = 0 THEN 1 ELSE NoArray],
                      !.timer = TRUE,
                      !.accepted = { first[i] : i \in 1..Len(first) }]

\* flushBuffer on logger l: write the joined buffer and point l's logBuffer
\* at a new array (this.logBuffer = [])
flushBuffer(lg, l) ==
    IF lg.arrays[lg.buf[l]] = <<>> THEN lg
    ELSE [lg EXCEPT !.file = @ \o lg.arrays[lg.buf[l]],
                    !.arrays = Append(@, <<>>),
                    !.buf[l] = Len(lg.arrays) + 1]

\* bufferLog on logger l: push, and flush when the buffer is full
bufferLog(lg, l, e) ==
    LET pushed == [lg EXCEPT !.arrays[lg.buf[l]] = Append(@, e),
                             !.accepted = @ \cup {e}]
    IN IF Len(pushed.arrays[pushed.buf[l]]) >= BufferSize
       THEN flushBuffer(pushed, l)
       ELSE pushed

\* DetailLogger.configure({ enableFileLogging })
Configure ==
    /\ \E e \in BOOLEAN : logger' = [logger EXCEPT !.enabled = e]
    /\ logger' # logger
    /\ UNCHANGED <<now, ticks, authCodes, refreshTokens, nextCode, req, resp,
                   minted, okCount, rotated, delivered, starts, users, boot>>

\* parent.withContext(context): the new logger's logBuffer is the parent's
\* array
WithContext ==
    /\ \E p \in Loggers, c \in Loggers :
          /\ logger.buf[p] # NoArray
          /\ logger.buf[c] = NoArray
          /\ \A d \in Loggers : d < c => logger.buf[d] # NoArray
          /\ logger' = [logger EXCEPT !.buf[c] = logger.buf[p]]
    /\ UNCHANGED <<now, ticks, authCodes, refreshTokens, nextCode, req, resp,
                   minted, okCount, rotated, delivered, starts, users, boot>>

\* info / warn / error / debug on logger l: log() writes to the console, and
\* buffers the entry for the file when file logging is enabled
Log ==
    /\ logger.entries < MaxEntries
    /\ \E l \in Loggers :
          /\ logger.buf[l] # NoArray
          /\ LET e == logger.entries + 1
                 counted == [logger EXCEPT !.entries = e]
             IN logger' = IF logger.enabled THEN bufferLog(counted, l, e)
                          ELSE counted
    /\ UNCHANGED <<now, ticks, authCodes, refreshTokens, nextCode, req, resp,
                   minted, okCount, rotated, delivered, starts, users, boot>>

\* the setInterval callback of startFlushTimer: this is the singleton
FlushTimerTick ==
    /\ logger.timer
    /\ LET flushed == flushBuffer(logger, 0) IN
       /\ logger' = [flushed EXCEPT
                       !.missed = @ \cup (flushed.accepted \ written(flushed))]
       /\ logger' # logger
    /\ UNCHANGED <<now, ticks, authCodes, refreshTokens, nextCode, req, resp,
                   minted, okCount, rotated, delivered, starts, users, boot>>

\* DetailLogger.getInstance().shutdown()
Shutdown ==
    /\ ~logger.down
    /\ LET flushed == flushBuffer([logger EXCEPT !.timer = FALSE], 0) IN
       logger' = [flushed EXCEPT
                    !.down = TRUE,
                    !.lost = flushed.accepted \ written(flushed)]
    /\ UNCHANGED <<now, ticks, authCodes, refreshTokens, nextCode, req, resp,
                   minted, okCount, rotated, delivered, starts, users, boot>>

LoggerSpec == InitLogger /\ [][
        \/ Configure
        \/ WithContext
        \/ Log
        \/ FlushTimerTick
        \/ Shutdown
    ]_vars

----------------------------------------------------------------------------
(* POST /token (authorization_code) when a later storage call rejects *)

\* validateAuthCode: AuthCodeModel.deleteOne of the expired record rejects;
\* token's catch answers 500
ExDeleteExpiredOnStorageError(r) ==
    /\ listening
    /\ req[r].pc = "ex_expired"
    /\ resp' = [tokenError("exchange", req[r], 500, "server_error", "")
                   EXCEPT !.infra = TRUE]
    /\ req' = [req EXCEPT ![r] = Idle]
    /\ UNCHANGED <<now, ticks, authCodes, refreshTokens, nextCode, minted,
                   okCount, rotated, delivered, starts, users, boot, logger>>

\* issueTokens: RefreshTokenModel.create rejects; nothing is stored
ExIssueOnStorageError(r) ==
    /\ listening
    /\ req[r].pc = "ex_issue"
    /\ resp' = [tokenError("exchange", req[r], 500, "server_error", "")
                   EXCEPT !.infra = TRUE]
    /\ req' = [req EXCEPT ![r] = Idle]
    /\ UNCHANGED <<now, ticks, authCodes, refreshTokens, nextCode, minted,
                   okCount, rotated, delivered, starts, users, boot, logger>>

\* consumeAuthCode: AuthCodeModel.deleteOne rejects after issueTokens has
\* stored the refresh-token record
ExConsumeOnStorageError(r) ==
    /\ listening
    /\ req[r].pc = "ex_consume"
    /\ resp' = [tokenError("exchange", req[r], 500, "server_error", "")
                   EXCEPT !.infra = TRUE]
    /\ req' = [req EXCEPT ![r] = Idle]
    /\ UNCHANGED <<now, ticks, authCodes, refreshTokens, nextCode, minted,
                   okCount, rotated, delivered, starts, users, boot, logger>>

ExchangeFailureSpec == Init /\ [][
        \/ Tick
        \/ Login
        \/ TokenOnStorageError
        \/ \E r \in Reqs :
            \/ StartExchange(r)
            \/ ExDeleteExpired(r)
            \/ ExIssue(r)
            \/ ExConsume(r)
            \/ ExDeleteExpiredOnStorageError(r)
            \/ ExIssueOnStorageError(r)
            \/ ExConsumeOnStorageError(r)
    ]_vars

----------------------------------------------------------------------------
(* MongoCollections.createIndexes: the TTL indexes and the server's TTL monitor *)

\* createIndex({ expires_at: 1 }, { expireAfterSeconds: 0 }) on authcodes and
\* on refreshtokens
TtlIndexField == "expires_at"

NoDate == -1

\* the value of the indexed field in a stored document; createAuthCode and
\* issueTokens store the expiry under expiresAt
indexedDate(doc) ==
    IF TtlIndexField \in DOMAIN doc THEN doc[TtlIndexField] ELSE NoDate

\* a document expires once the indexed date plus expireAfterSeconds has
\* passed; a document without the indexed field does not expire
ttlExpired(doc, t) ==
    /\ indexedDate(doc) # NoDate
    /\ indexedDate(doc) + ExpireAfterSeconds <= t

\* one pass of the TTL monitor over both collections
TtlMonitor ==
    /\ boot.db = "connected"
    /\ authCodes' = { a \in authCodes : ~ttlExpired(a, now) }
    /\ refreshTokens' = { d \in refreshTokens : ~ttlExpired(d, now) }
    /\ resp' = [NoResp EXCEPT !.kind = "ttl"]
    /\ UNCHANGED <<now, ticks, nextCode, req, minted, okCount, rotated,
                   delivered, starts, users, boot, logger>>

\* time passes and the monitor keeps running; no client is obliged to send
\* a request
GcSpec ==
    /\ Init
    /\ [][
        \/ Tick
        \/ Login
        \/ TtlMonitor
        \/ \E r \in Reqs :
            \/ StartExchange(r)
            \/ ExDeleteExpired(r)
            \/ ExIssue(r)
            \/ ExConsume(r)
      ]_vars
    /\ WF_vars(Tick)
    /\ WF_vars(TtlMonitor)

----------------------------------------------------------------------------
(* From POST /login to GET /userinfo *)

\* POST /login of each user, for each client
LoginAnyClient ==
    login([username : {"alice", "bob"}, password : Passwords,
           client_id : ClientIds,
           redirect_uri : {"http://localhost:3000/callback"}, scope : Scopes,
           code_challenge : {S256("v1")}, code_challenge_method : {"S256"}])

\* the access token issueTokens signed in the call that signed refresh token t
accessTokenWith(t) ==
    signAccessToken(findUserByUsername(t.sub), "openid profile", t.iat)

\* GET /userinfo with an access token a token response has returned
UserinfoIssued ==
    /\ listening
    /\ \E t \in delivered :
          resp' = userinfoResponse([scheme |-> "Bearer",
                                    token |-> accessTokenWith(t)], now)
    /\ UNCHANGED <<now, ticks, authCodes, refreshTokens, nextCode, req,
                   minted, okCount, rotated, delivered, starts, users, boot, logger>>

IdentitySpec == Init /\ [][
        \/ Tick
        \/ LoginAnyClient
        \/ UserinfoIssued
        \/ \E r \in Reqs :
            \/ StartExchange(r)
            \/ ExDeleteExpired(r)
            \/ ExIssue(r)
            \/ ExConsume(r)
    ]_vars

----------------------------------------------------------------------------
(* The token endpoint under each configured access-token expiry *)

\* the server listening, with ACCESS_TOKEN_EXPIRY unset or set
InitConfigured ==
    /\ now = 0
    /\ ticks = 0
    /\ authCodes = {}
    /\ refreshTokens = {}
    /\ nextCode = 0
    /\ req = [r \in Reqs |-> Idle]
    /\ resp = NoResp
    /\ minted = {}
    /\ okCount = [c \in 1..MaxCodes |-> 0]
    /\ rotated = {}
    /\ delivered = {}
    /\ starts = 0
    /\ users = UserDb
    /\ boot \in { [Serving EXCEPT !.accessTokenExpiry = e] :
                     e \in AccessTokenExpiries }
    /\ logger = NoLogger

ConfiguredSpec == InitConfigured /\ [][
        \/ Login
        \/ \E r \in Reqs :
            \/ StartExchange(r)
            \/ ExIssue(r)
            \/ ExConsume(r)
            \/ StartRefresh(r)
            \/ RfDelete(r)
            \/ RfIssue(r)
    ]_vars

----------------------------------------------------------------------------
(* Exchange of codes minted by any POST /login *)

AnyFormExchangeSpec == Init /\ [][
        \/ LoginAnyForm
        \/ \E r \in Reqs :
            \/ StartExchange(r)
            \/ ExIssue(r)
            \/ ExConsume(r)
    ]_vars

----------------------------------------------------------------------------
(* The "Try again" link of the Invalid Credentials page *)

\* the body a browser posts from the form /authorize rendered for query q:
\* the two inputs and the hidden fields client_id, redirect_uri, state, scope,
\* code_challenge and code_challenge_method (the form has no response_type
\* field; scope is validateReq.data.scope || "")
formBody(q, username, password) ==
    [username |-> username, password |-> password, client_id |-> q.client_id,
     redirect_uri |-> q.redirect_uri, scope |-> "",
     code_challenge |-> q.code_challenge,
     code_challenge_method |-> q.code_challenge_method]

\* POST /login from the form on the page /authorize has just answered with
LoginFromForm ==
    /\ resp.kind = "authorize" /\ resp.body = "login_form"
    /\ login({ formBody(resp.query, u, p) : u \in Usernames, p \in Passwords })

\* new URLSearchParams(req.body).toString(), as GET /authorize reads it back:
\* each parameter of the authorize query that is a field of the body, and no
\* other
tryAgainQuery(b) ==
    [name \in DOMAIN NoQuery |-> IF name \in DOMAIN b THEN b[name] ELSE Absent]

\* the browser follows the link of the 401 page
TryAgain ==
    /\ listening
    /\ resp.kind = "login" /\ resp.status = 401
    /\ resp' = [authorizeResponse(tryAgainQuery(resp.form))
                   EXCEPT !.form = resp.form]
    /\ UNCHANGED <<now, ticks, authCodes, refreshTokens, nextCode, req, minted,
                   okCount, rotated, delivered, starts, users, boot, logger>>

TryAgainSpec == Init /\ [][
        \/ Authorize
        \/ LoginFromForm
        \/ TryAgain
    ]_vars

----------------------------------------------------------------------------
(* Properties *)

noTokens(x) ==
    /\ x.access_token = NoAccess
    /\ x.refresh_token = NoToken
    /\ x.id_token = NoIdToken

issuing(r) == req[r].pc \in {"ex_issue", "ex_consume"}

\* C1: two concurrent exchanges of the same authorization code never both
\* receive a token response: at most one token response per code.
C1_AtMostOneSuccessPerCode == \A c \in 1..MaxCodes : okCount[c] <= 1

\* C2: once a token response has been returned for a code, a later exchange
\* request presenting that code never gets past validation, is answered
\* 400 invalid_grant and carries no tokens.
C2_SecondExchangeFails ==
    /\ \A r \in Reqs : req[r].pc \in {"ex_expired", "ex_issue", "ex_consume"}
                          => ~req[r].after
    /\ (resp.kind = "exchange" /\ resp.wellFormed /\ resp.after)
          => (resp.status = 400 /\ resp.error = "invalid_grant" /\ noTokens(resp))

C2_Witness ==
    /\ resp.kind = "exchange" /\ resp.wellFormed /\ resp.after
    /\ ~resp.badVerifier /\ ~resp.badBinding
    /\ resp.status = 400

\* C3: of two refresh requests for the same token that are in flight together,
\* at most one returns a TokenPair.
C3_AtMostOneConcurrentRefresh ==
    ~(resp.kind = "refresh" /\ resp.status = 200 /\ resp.overlapOk)

\* C4: after refreshTokens(A) has returned a pair, a later refreshTokens(A)
\* fails with 400 invalid_grant.
C4_RotatedTokenRejected ==
    (resp.kind = "refresh" /\ resp.after)
        => (resp.status = 400 /\ resp.error = "invalid_grant")

\* C5: a refresh request reaches issueTokens, and returns a TokenPair, only
\* after its deleteOne has left no record of the presented token.
C5_RemovedBeforeSuccessor ==
    /\ \A r \in Reqs : req[r].pc = "rf_issue" => req[r].removed
    /\ (resp.kind = "refresh" /\ resp.status = 200) => resp.removed

C5_Witness == resp.kind = "refresh" /\ resp.status = 200 /\ resp.removed

active(d) == ~d.revoked /\ ~(d.expiresAt < now)

\* C6: every rotation chain has at most one stored refresh-token record that
\* is unrevoked and unexpired.
C6_OneActivePerChain ==
    \A d1, d2 \in refreshTokens :
        (d1.chain = d2.chain /\ active(d1) /\ active(d2)) => d1 = d2

\* C7: an exchange request that supplies all four parameters and finds the
\* code's record past its expiresAt never reaches issueTokens and is answered
\* 400 invalid_grant without tokens, whether or not the code_verifier matches.
C7_ExpiredCodeRejected ==
    /\ \A r \in Reqs : issuing(r) => ~req[r].sawExpired
    /\ (resp.kind = "exchange" /\ resp.sawExpired)
          => (resp.status = 400 /\ resp.error = "invalid_grant" /\ noTokens(resp))

C7_Witness ==
    /\ resp.kind = "exchange" /\ resp.sawExpired
    /\ ~resp.badVerifier /\ ~resp.badBinding
    /\ resp.status = 400

\* C8: an exchange request reaches issueTokens and gets a token response only
\* if its client_id and redirect_uri equal those of the record minted at
\* /login; if either differs it is answered 400 without tokens.
C8_BoundToMintedClientAndRedirect ==
    /\ \A r \in Reqs : issuing(r) => ~req[r].badBinding
    /\ (resp.kind = "exchange" /\ resp.status = 200) => ~resp.badBinding
    /\ (resp.kind = "exchange" /\ resp.badBinding)
          => (resp.status = 400 /\ noTokens(resp))

C8_Witness ==
    /\ resp.kind = "exchange" /\ resp.badBinding
    /\ ~resp.badVerifier /\ ~resp.sawExpired /\ ~resp.after
    /\ resp.status = 400

\* C9: an exchange request that supplies all four parameters and whose
\* code_verifier does not hash to the challenge minted with the code never
\* reaches issueTokens and is answered 400 invalid_grant without tokens.
C9_PkceMismatchRejected ==
    /\ \A r \in Reqs : issuing(r) => ~req[r].badVerifier
    /\ (resp.kind = "exchange" /\ resp.badVerifier)
          => (resp.status = 400 /\ resp.error = "invalid_grant" /\ noTokens(resp))

C9_Witness ==
    /\ resp.kind = "exchange" /\ resp.badVerifier
    /\ ~resp.badBinding /\ ~resp.sawExpired
    /\ resp.status = 400 /\ resp.desc = "PKCE verification failed"

\* the request has no code_challenge, or a code_challenge_method other than S256
withoutS256(q) ==
    q.code_challenge \in {Absent, ""} \/ q.code_challenge_method # "S256"

\* C10 as stated: every /authorize request without an S256 challenge is
\* answered with the 400 invalid_request PKCE-required error.
C10_AlwaysPkceRequiredError ==
    (resp.kind = "authorize" /\ withoutS256(resp.query))
        => /\ resp.status = 400
           /\ resp.error = "invalid_request"
           /\ resp.desc = "PKCE required (S256)"

\* C10 as amended: every /authorize request without an S256 challenge is
\* answered 400 and never with the login form; the answer is the
\* PKCE-required error when the query passes the schema and asks for
\* response_type "code".
C10_NoLoginFormWithoutS256 ==
    (resp.kind = "authorize" /\ withoutS256(resp.query))
        => /\ resp.status = 400
           /\ resp.body # "login_form"
           /\ (schemaAuthorize(resp.query) /\ resp.query.response_type = "code")
                 => (resp.error = "invalid_request"
                     /\ resp.desc = "PKCE required (S256)")

C10_Witness ==
    /\ resp.kind = "authorize"
    /\ resp.query.code_challenge = S256("v1")
    /\ resp.query.code_challenge_method = "plain"
    /\ resp.query.response_type = "code"
    /\ validateClient(resp.query.client_id, resp.query.redirect_uri)
    /\ resp.desc = "PKCE required (S256)"

\* a record of token t that is neither revoked nor expired is stored
usableRecord(t) ==
    \E d \in refreshTokens : d.token = t /\ ~d.revoked /\ ~(d.expiresAt < now)

\* C11: a refresh request whose token has no record, a revoked record or an
\* expired record when refreshTokens looks it up is not taken any further and
\* is answered 400 invalid_grant, and that step deletes and creates no
\* refresh-token record.
C11_UnusableTokenRejected ==
    [][ /\ \A r \in Reqs :
             (req[r].pc = "idle" /\ req'[r].pc = "rf_delete")
                => usableRecord(req'[r].presented)
        /\ (resp'.kind = "refresh" /\ req' = req /\ resp'.wellFormed
              /\ ~usableRecord(resp'.presented))
             => /\ resp'.status = 400
                /\ resp'.error = "invalid_grant"
                /\ noTokens(resp')
                /\ refreshTokens' = refreshTokens ]_vars

C11_Witness ==
    /\ resp.kind = "refresh" /\ resp.status = 400 /\ resp.error = "invalid_grant"
    /\ \E d \in refreshTokens : d.token = resp.presented /\ d.revoked

\* C12: a refresh request whose presented token was removed by a completed
\* revoke while the request was in progress never returns a TokenPair.
C12_NoPairAfterRevoke ==
    ~(resp.kind = "refresh" /\ resp.status = 200 /\ resp.revokedSince)

\* C13: a /revoke request with a token answers 200 with revoked = true exactly
\* when a record with that token value was stored, and the call removes that
\* record and no other; a revoke of an unknown token, and a second revoke
\* directly after the first, answers 200 with revoked = false and leaves the
\* collection as it was.
C13_RevokeReportsRemoval ==
    [][ /\ (resp'.kind = "revoke" /\ resp'.wellFormed)
             => /\ resp'.status = 200
                /\ resp'.error = ""
                /\ resp'.revoked = (\E d \in refreshTokens : d.token = resp'.presented)
                /\ refreshTokens' =
                      { d \in refreshTokens : d.token # resp'.presented }
                /\ ~resp'.revoked => refreshTokens' = refreshTokens
        /\ (resp.kind = "revoke" /\ resp.wellFormed /\ resp'.kind = "revoke"
              /\ resp'.presented = resp.presented)
             => (~resp'.revoked /\ refreshTokens' = refreshTokens) ]_vars

C13_Witness ==
    /\ resp.kind = "revoke" /\ resp.status = 200 /\ ~resp.revoked
    /\ resp.presented \in delivered /\ rotated = {}
    /\ \A r \in Reqs : req[r].pc = "idle"

\* C14: the refresh token of a token response differs from every refresh
\* token returned by an earlier token response.
C14_RefreshTokenValuesUnique ==
    ~(resp.kind \in {"exchange", "refresh"} /\ resp.status = 200 /\ resp.repeated)

\* the step takes request r from position p to position q
moves(r, p, q) == req[r].pc = p /\ req'[r].pc = q

\* the step persists exactly one new refresh-token record, with this token,
\* user and client
persistsOne(token, userId, clientId) ==
    \E d \in refreshTokens' :
        /\ d \notin refreshTokens
        /\ refreshTokens' = refreshTokens \cup {d}
        /\ d.token = token /\ d.userId = userId /\ d.clientId = clientId

\* C15: a token response is returned only by a request that has persisted
\* exactly one new refresh-token record; the record's token is the returned
\* refresh_token and its userId and clientId are those of the authorization
\* code's record (exchange) or of the presented token's record (refresh).
C15_OneRecordPerTokenResponse ==
    [][ /\ \A r \in Reqs :
            /\ moves(r, "idle", "ex_issue")
                  => \E m \in authCodes :
                        /\ m.code = req'[r].code
                        /\ req'[r].user.id = m.userId
                        /\ req'[r].docClient = m.clientId
            /\ moves(r, "idle", "rf_delete")
                  => \E d \in refreshTokens :
                        /\ d.token = req'[r].presented
                        /\ req'[r].user.id = d.userId
                        /\ req'[r].docClient = d.clientId
            /\ moves(r, "ex_issue", "ex_consume")
                  => persistsOne(req'[r].issued, req[r].user.id, req[r].docClient)
            /\ moves(r, "ex_consume", "idle")
                  => /\ resp'.status = 200
                     /\ resp'.refresh_token = req[r].issued
                     /\ refreshTokens' = refreshTokens
            /\ (moves(r, "rf_issue", "idle") /\ resp'.status = 200)
                  => persistsOne(resp'.refresh_token, req[r].user.id,
                                 req[r].docClient)
        /\ (resp'.kind \in {"exchange", "refresh"} /\ resp'.status = 200)
              => \E r \in Reqs : \/ moves(r, "ex_consume", "idle")
                                  \/ moves(r, "rf_issue", "idle") ]_vars

C15_Witness ==
    /\ resp.kind = "refresh" /\ resp.status = 200
    /\ \E d \in refreshTokens :
          /\ d.token = resp.refresh_token
          /\ d.userId = "oid-alice" /\ d.clientId = "spa-client"
          /\ d.token # resp.presented

\* the credentials name a stored user and hash to that user's password
verified(username, password) ==
    \E u \in users : u.username = username /\ u.password = Bcrypt(password)

\* C16: a step adds an authorization-code record only if it is a /login
\* answered with the redirect, for credentials that match a stored user, and
\* the record carries that user's id; a /login whose username is unknown or
\* whose password is wrong is answered 401 and adds no record.
C16_CodeOnlyAfterVerifiedLogin ==
    [][ /\ (authCodes' \ authCodes # {})
              => /\ resp'.kind = "login" /\ resp'.status = 302
                 /\ verified(resp'.form.username, resp'.form.password)
                 /\ \A d \in authCodes' \ authCodes :
                       \E u \in users : /\ u.username = resp'.form.username
                                          /\ d.userId = u.id
        /\ (resp'.kind = "login" /\ ~verified(resp'.form.username, resp'.form.password))
              => /\ resp'.status = 401
                 /\ resp'.code = 0
                 /\ authCodes' = authCodes ]_vars

C16_Witness ==
    /\ resp.kind = "login" /\ resp.status = 401
    /\ resp.form.username = "alice" /\ resp.form.password = "hunter2"
    /\ authCodes = {}

C18_InfrastructureErrorIs500 ==
    resp.infra => (resp.status = 500 /\ resp.error = "server_error")

\* C19: requests are accepted, and answered, only once connect() and
\* initialize() have both succeeded; when either fails the process has
\* exited, stays exited and never answers a request.
C19_ServesOnlyAfterStartup ==
    [][ /\ (listening' \/ resp' # NoResp)
              => (boot'.db = "connected" /\ boot'.crypto = "initialized")
        /\ (boot'.db = "failed" \/ boot'.crypto = "failed")
              => (boot'.pc = "exited" /\ resp' = NoResp)
        /\ boot.pc = "exited" => boot' = boot ]_vars

C19_Witness ==
    /\ listening /\ resp.kind = "login" /\ resp.status = 302
    /\ boot.db = "connected" /\ boot.crypto = "initialized"

\* C20: /userinfo with a Bearer access token that carries the server's
\* signature and whose exp is earlier than the current second is answered
\* 401 invalid_token and returns no user data.
C20_ExpiredAccessTokenRejected ==
    (resp.kind = "userinfo" /\ resp.bearer.scheme = "Bearer"
       /\ resp.bearer.token.kid = Kid /\ resp.bearer.token # NoAccess
       /\ resp.bearer.token.exp < now)
        => /\ resp.status = 401
           /\ resp.error = "invalid_token"
           /\ resp.userinfo = NoUser

C20_Witness ==
    /\ resp.kind = "userinfo" /\ resp.status = 401
    /\ resp.desc = "Token expired"
    /\ resp.bearer.token.exp = now - 1
    /\ \E u \in users : u.username = resp.bearer.token.sub

\* the token of the last /api/profile request passes jwtVerify: the server's
\* key, issuer and audience, and not yet expired
verifiable(token) ==
    /\ token.kid = Kid /\ token.iss = Issuer /\ token.aud = "spa-client"
    /\ token.exp > now

\* the scope claim has "profile" among its space-delimited items
grantsProfile(token) ==
    \E c \in ScopeClaims : c.text = token.scope /\ "profile" \in c.items

\* C21: GET /api/profile with a Bearer token whose signature, issuer,
\* audience and expiry are valid but whose scope claim lacks "profile" is
\* answered 403 insufficient_scope; with a token that fails the signature,
\* issuer, audience or expiry check it is answered 401 invalid_token; 403 is
\* given only in the first case and 401 invalid_token only in the second.
C21_ScopeIs403VerificationIs401 ==
    (resp.kind = "profile" /\ resp.bearer.scheme = "Bearer"
       /\ resp.bearer.token # EmptyToken)
        => LET token == resp.bearer.token IN
           /\ (verifiable(token) /\ ~grantsProfile(token))
                 <=> (resp.status = 403 /\ resp.error = "insufficient_scope")
           /\ ~verifiable(token)
                 <=> (resp.status = 401 /\ resp.error = "invalid_token")
           /\ resp.status \in {200, 401, 403}

C21_Witness ==
    /\ resp.kind = "profile" /\ resp.status = 403
    /\ resp.bearer.token.scope = ProfileChars \o <<"s">>
    /\ resp.bearer.token.exp = now + 1

\* C22: for all verifiers v and v2, verifyCodeChallenge(v,
\* createCodeChallenge(v2)) is true when v = v2 and false when v differs
\* from v2, the sha256 digest being injective.
C22_PkceRoundTrip ==
    resp.kind = "pkce"
        => /\ resp.pkce.verified <=> (resp.pkce.verifier = resp.pkce.from)
           /\ Len(resp.pkce.challenge) = ChallengeMin

C22_Witness ==
    /\ resp.kind = "pkce"
    /\ resp.pkce.verifier = "v1" /\ resp.pkce.from = "v2"
    /\ ~resp.pkce.verified

\* the kid a verifier finds in the key set the server serves
servedKids == { boot.publicJwk.kid } \cup { resp.keys[i].kid : i \in 1..Len(resp.keys) }

\* the kid in the protected header of every token signed so far that is
\* stored, held by a handler or in the last response
signedKids ==
    { d.token.kid : d \in refreshTokens }
      \cup { req[r].issued.kid : r \in { q \in Reqs : req[q].issued # NoToken } }
      \cup (IF resp.kind \in {"exchange", "refresh"} /\ resp.status = 200
            THEN { resp.access_token.kid, resp.refresh_token.kid, resp.id_token.kid }
            ELSE {})

\* C23: once CryptoService.initialize has run, the key set served at
\* /.well-known/jwks.json holds one key, and its kid is the kid in the
\* header of every access, refresh and ID token signJWT has produced.
C23_JwkKidMatchesTokenKid ==
    boot.crypto = "initialized"
        => /\ \A k \in servedKids : \A t \in signedKids : k = t
           /\ \A k \in servedKids : k # ""
           /\ resp.kind = "jwks" => Len(resp.keys) = 1

C23_Witness ==
    /\ resp.kind = "jwks" /\ resp.keys[1].kid = Kid
    /\ \E d \in refreshTokens : d.token.kid = Kid

\* C24: when DetailLogger.getInstance().shutdown() has returned, every entry
\* that was pushed onto a logBuffer before, by the singleton or by a logger
\* derived with withContext, has been passed to fileTransport.write.
C24_ShutdownLosesNoLogs == logger.down => logger.lost = {}

\* C25: every entry pushed onto a logBuffer, by the singleton or by a logger
\* derived with withContext, has been passed to fileTransport.write when the
\* next flush-timer callback returns.
C25_WrittenByNextTick == logger.missed = {}

\* C26: the scope claim of the access token of every token response, from
\* an exchange or from a refresh within the code's rotation chain, is the
\* scope stored with the authorization code at /login.
C26_TokenScopeIsCodeScope ==
    (resp.kind \in {"exchange", "refresh"} /\ resp.status = 200)
        => resp.access_token.scope = resp.bound

\* C27: every stored authorization-code record has a client and redirect URI
\* that are registered together and a non-empty codeChallenge, whatever
\* /authorize and /login requests were made.
C27_StoredCodesRegisteredWithChallenge ==
    \A a \in authCodes :
        /\ validateClient(a.clientId, a.redirectUri)
        /\ a.codeChallenge # ""

\* C28: an exchange request that ends with an error response, 400 or 500,
\* has created no refresh-token record and has left the authorization-code
\* records as they were, except that it may have deleted the record of its
\* code when that record was expired.
C28_FailedExchangeLeavesStorage ==
    [][ LET \* the step ends exchange request r with an error response
            exchangeFails(r) ==
                /\ req[r].pc \in {"ex_expired", "ex_issue", "ex_consume"}
                /\ req'[r].pc = "idle"
                /\ resp'.kind = "exchange" /\ resp'.status \in {400, 500}
        IN
        /\ \A r \in Reqs :
            exchangeFails(r)
               => /\ req[r].issued = NoToken
                  /\ refreshTokens' = refreshTokens
                  /\ \/ authCodes' = authCodes
                     \/ /\ req[r].sawExpired
                        /\ authCodes' = { a \in authCodes : a.code # req[r].code }
        /\ (resp'.kind = "exchange" /\ resp'.status \in {400, 500} /\ req' = req)
               => (refreshTokens' = refreshTokens /\ authCodes' = authCodes) ]_vars


\* C29: a refresh request that ends with an error response, 400 or 500, leaves
\* the record of the presented refresh token as it was: when the request is
\* refused on arrival storage is untouched, and when it fails after it was
\* admitted (no revoke and no other refresh of the same token having
\* intervened) the presented token still has its usable record, so a later
\* refresh accepts it.
C29_FailedRefreshKeepsToken ==
    [][ LET \* the step ends refresh request r, which had been admitted,
            \* with an error response
            refreshFails(r) ==
                /\ req[r].pc \in {"rf_delete", "rf_issue"}
                /\ req'[r].pc = "idle"
                /\ resp'.kind = "refresh" /\ resp'.status \in {400, 500}
        IN
        /\ \A r \in Reqs :
            (refreshFails(r) /\ ~req[r].revokedSince /\ ~req[r].overlapOk)
               => refreshTokenUsable(findOneToken(refreshTokens', req[r].presented),
                                     now')
        /\ (resp'.kind = "refresh" /\ resp'.status \in {400, 500} /\ req' = req)
               => refreshTokens' = refreshTokens ]_vars


\* C30: when validateAuthCode finds a record whose expiresAt is before the
\* current time, the record is deleted by the time the failure is reported,
\* and a code that has lost its record never gets one again, so every later
\* exchange with that code finds no record.
C30_ExpiredCodeDeleted ==
    [][ LET \* the step ends exchange request r, whose code validateAuthCode
            \* found past its expiresAt, with the failure report
            reportsExpired(r) ==
                /\ req[r].pc = "ex_expired"
                /\ req'[r].pc = "idle"
                /\ resp'.kind = "exchange" /\ resp'.status = 400
        IN
        /\ \A r \in Reqs :
            reportsExpired(r)
               => findOneCode(authCodes', req[r].code) = NoCodeDoc
        /\ \A c \in 1..MaxCodes :
            (c <= nextCode /\ findOneCode(authCodes, c) = NoCodeDoc)
               => findOneCode(authCodes', c) = NoCodeDoc ]_vars

C30_Witness ==
    /\ resp.kind = "exchange" /\ resp.status = 400 /\ resp.sawExpired
    /\ nextCode >= 1
    /\ authCodes = {}


\* C31: an exchange request that fails because of a client_id mismatch, a
\* redirect_uri mismatch or a PKCE mismatch leaves the authorization-code
\* records as they were: the code's record is still stored, with the same
\* fields and the same expiresAt.
C31_MismatchKeepsCode ==
    [][ LET \* the step answers an exchange request 400 because client_id or
            \* redirect_uri differs from the code's record, or code_verifier
            \* does not hash to its challenge, the record not being past its
            \* expiresAt
            failsOnMismatch ==
                /\ resp'.kind = "exchange" /\ resp'.status = 400
                /\ resp'.badBinding \/ resp'.badVerifier
                /\ ~resp'.sawExpired
        IN failsOnMismatch => authCodes' = authCodes ]_vars

C31_Witness ==
    /\ resp.kind = "exchange" /\ resp.status = 400
    /\ resp.badBinding \/ resp.badVerifier
    /\ ~resp.sawExpired
    /\ \E a \in authCodes : \E m \in minted :
          a.code = m.code /\ a.expiresAt = m.expiresAt /\ ~a.used


\* C32: every authorization-code record that is never successfully exchanged
\* is eventually removed from storage after its expiresAt has passed, even if
\* no exchange request ever presents the code.
C32_ExpiredCodesCollected ==
    \A c \in 1..MaxCodes :
        (\E a \in authCodes : a.code = c /\ a.expiresAt < now)
            ~> (findOneCode(authCodes, c) = NoCodeDoc)


\* the user who authenticated at the /login request that minted code c
loginUser(c) ==
    getUserById((CHOOSE m \in minted : m.code = c).userId)

\* C33: the access token of a successful code exchange names the user who
\* authenticated at the /login request that minted the code, whatever the
\* client; and GET /userinfo with an access token a token response returned,
\* before the token's exp, answers 200 with the sub, name and email of the
\* user the token names.
C33_UserinfoReturnsLoginUser ==
    [][ /\ \A r \in Reqs :
            (moves(r, "ex_consume", "idle") /\ resp'.kind = "exchange"
                                            /\ resp'.status = 200)
               => /\ loginUser(req[r].code) # NoUser
                  /\ resp'.access_token.sub = loginUser(req[r].code).username
                  /\ accessTokenWith(resp'.refresh_token) = resp'.access_token
        /\ (resp'.kind = "userinfo" /\ now' < resp'.bearer.token.exp)
               => /\ resp'.status = 200
                  /\ resp'.userinfo.username = resp'.bearer.token.sub
                  /\ \E u \in UserDb :
                        /\ u.username = resp'.bearer.token.sub
                        /\ resp'.userinfo.id = u.id
                        /\ resp'.userinfo.name = u.name
                        /\ resp'.userinfo.email = u.email ]_vars

C33_Witness ==
    /\ resp.kind = "userinfo" /\ resp.status = 200
    /\ now > 0 /\ now < resp.bearer.token.exp
    /\ resp.userinfo.username = "bob"
    /\ \E m \in minted : m.userId = resp.userinfo.id /\ m.clientId = "other-client"


\* C34: in every successful token response, expires_in equals the lifetime in
\* seconds, exp minus iat, of the access token in the response, for every
\* configured access-token expiry.
C34_ExpiresInIsTokenLifetime ==
    (resp.kind \in {"exchange", "refresh"} /\ resp.status = 200)
       => resp.expires_in = resp.access_token.exp - resp.access_token.iat


\* C35: no exchange is admitted to issueTokens, and no token response is
\* produced, for a code whose record was stored with an absent or empty
\* codeChallenge, whatever non-empty code_verifier is presented.
C35_NoTokensWithoutChallenge ==
    [][ \A r \in Reqs :
          /\ (req[r].pc = "idle" /\ req'[r].pc = "ex_issue")
                => findOneCode(authCodes, req'[r].code).codeChallenge # ""
          /\ (moves(r, "ex_consume", "idle") /\ resp'.kind = "exchange"
                                             /\ resp'.status = 200)
                => (CHOOSE m \in minted : m.code = req[r].code).codeChallenge # "" ]_vars

C35_Witness ==
    /\ resp.kind = "exchange" /\ resp.status = 400
    /\ resp.desc = "PKCE verification failed"
    /\ \E a \in authCodes : a.codeChallenge = ""


\* C36: each log entry accepted for file logging is passed to the file
\* transport at most once, whatever the interleaving of log calls on loggers
\* derived with withContext, size-triggered flushes and timer-triggered
\* flushes.
C36_WrittenAtMostOnce ==
    \A i, j \in 1..Len(logger.file) :
        i # j => logger.file[i] # logger.file[j]


\* C37: after a failed /login submitted from the login form of a valid
\* /authorize request, GET /authorize with the parameters of the "Try again"
\* link passes authorize validation and renders the login form again.
C37_TryAgainRendersForm ==
    (resp.kind = "authorize" /\ resp.form # NoForm)
       => (resp.status = 200 /\ resp.body = "login_form")

====
